---- MODULE Spec2Model ----
(***************************************************************************)
(* The authenticated request pipeline of SmartThings/Core:                 *)
(*   EndpointClient.request      (endpoint_client.py)                      *)
(*   the authenticators          (authenticator.py)                        *)
(*   EndpointClient.getPagedItems (endpoint_client.py)                     *)
(*   PaginatedListIterator.next  (pagination.py)                           *)
(*                                                                         *)
(* Every request() call is an asyncio task.  A task only loses control at  *)
(* an await that really suspends: the HTTP round trip, the refresh round   *)
(* trip and the wait for the refresh mutex.  Each action below is one run  *)
(* of a task from one suspension point to the next.                        *)
(***************************************************************************)
EXTENDS Integers, Sequences, FiniteSets, TLC

\* ------------------------------------------------------------- bounds
NumCallers == 2      \* concurrent request() tasks sharing one client
MaxRefresh == 2      \* tokens the auth server mints in one run
MaxPages == 3        \* pages of a next-link chain
MaxPageItems == 2    \* items of one page
MaxNextCalls == 4    \* calls of PaginatedListIterator.next in one run
MaxHeaderOps == 2    \* calls of setHeader and removeHeader in one run

Callers == 1..NumCallers

\* HTTP status codes a server answers with; 0 stands for a call that ends in
\* a transport exception instead of a response.
Statuses == {200, 300, 401, 500}
Outcomes == Statuses \cup {0}

\* ------------------------------------------------------------- values
\* Authorization header value: -1 = header absent, n >= 0 = "Bearer <token n>".
NoAuth == -1

\* A parsed response body.  src names the call that produced it, page is the
\* page of the chain it holds (0: a JSON value that is no page).
NoBody == [src |-> "none", status |-> 0, page |-> 0]

Body(src, status, path) ==
    [src |-> src, status |-> status,
     page |-> IF 200 <= status /\ status < 300 THEN path ELSE 0]

\* options.dryRunReturnValue: Python values, named.
DryRunValues == {"None", "0", "EmptyList", "Obj"}

\* Python truth value of a dryRunReturnValue.
Truthy(v) == v \notin {"None", "0", "EmptyList"}

\* A header map: Authorization as above; Accept is the list of media types of
\* its comma-separated value (<<>>: no entry); X-ST-CORRELATION and a custom
\* header are strings ("": no entry).
EmptyMap == [Authorization |-> NoAuth, Accept |-> <<>>, Correlation |-> "", Custom |-> ""]

\* options.headerOverrides: the entries in keys, with map's values.
NoOverrides == [keys |-> {}, map |-> EmptyMap]

NoOptions == [dryRun |-> FALSE, dryRunReturnValue |-> "None", headerOverrides |-> NoOverrides]

Options ==
    {NoOptions}
    \cup {[dryRun |-> TRUE, dryRunReturnValue |-> v, headerOverrides |-> NoOverrides] :
            v \in DryRunValues}

Pending == [kind |-> "pending", err |-> "none", body |-> NoBody, canned |-> "None"]
Returned(b) == [kind |-> "returned", err |-> "none", body |-> b, canned |-> "None"]
ReturnedCanned(v) == [kind |-> "returned", err |-> "none", body |-> NoBody, canned |-> v]
Raised(e, b) == [kind |-> "raised", err |-> e, body |-> b, canned |-> "None"]

\* How getPagedItems ended.
NoOutcome == [kind |-> "pending", err |-> "none", body |-> NoBody, items |-> <<>>]

VARIABLES
    authenticator,  \* [kind, mutex, token]: the shared config.authenticator
    urlProvider,    \* config.urlProvider is set
    mutexHolder,    \* caller holding the refresh mutex, 0 = free
    tokenStore,     \* [refreshToken, authToken]: RefreshTokenStore contents
    minted,         \* tokens minted so far by the auth server
    pc,             \* per caller: position of its request() task
    options,        \* per caller: options of the running request()
    reqPath,        \* per caller: page the path addresses (0: no page)
    headers,        \* per caller: the request's header map
    data,           \* per caller: parsed body of the first response
    release,        \* per caller: release function returned by the mutex
    result,         \* per caller: how request() ended
    httpCalls,      \* per caller: Authorization sent with each HTTP call
    refreshSent,    \* per caller: refresh tokens it submitted
    issued,         \* per caller: access token its refresh was issued, or NoAuth
    events,         \* per caller: the calls its request() made, in order
    refreshResp,    \* per caller: status the refresh endpoint answered (-1: none)
    config,         \* [headers, loggingId, version] of EndpointClientConfig
    headerOps,      \* calls of setHeader and removeHeader so far
    pages,          \* the server's chain of pages
    pgPc,           \* getPagedItems: position
    pgResult,       \* getPagedItems: the local list `result`
    pgOutcome,      \* getPagedItems: how it ended
    pgGets,         \* getPagedItems: calls of self.get
    itPage,         \* PaginatedListIterator.page (index into pages)
    itIndex,        \* PaginatedListIterator.index
    itLast,         \* result of the last next() call
    itYielded,      \* values returned with done = false, in order
    itCalls         \* calls of next() so far

authVars == <<authenticator, urlProvider, mutexHolder, tokenStore, minted>>
reqVars ==
    <<pc, options, reqPath, headers, data, release, result, httpCalls, refreshSent, issued,
      events, refreshResp>>
cfgVars == <<config, headerOps>>
pagedVars == <<pages, pgPc, pgResult, pgOutcome, pgGets>>
iterVars == <<itPage, itIndex, itLast, itYielded, itCalls>>
vars == <<authVars, reqVars, cfgVars, pagedVars, iterVars>>

\* ------------------------------------------------------ authenticators
AuthKinds == {"noop", "bearer", "refresh"}

\* AbstractAuthenticator.refresh raises NotImplementedError unless overridden;
\* only RefreshTokenAuthenticator overrides it.
SupportsRefresh(auth) == auth.kind = "refresh"

\* NoOpAuthenticator returns the map it was given; the bearer authenticators
\* return a new map with the Authorization entry set from self.token.
authenticate(auth, h) ==
    IF auth.kind = "noop" THEN h ELSE [h EXCEPT !.Authorization = auth.token]

\* ------------------------------------------------------------- request
\* EndpointClient.__url: raises when no URL provider is configured.
urlFails == ~urlProvider

\* The empty header map `{}`.
BaseHeaders == EmptyMap

\* Python truth value of config.headers: None and the empty dict are false.
HasHeaders(ch) == ~ch.none /\ ch.map # EmptyMap

\* HeadersObject without the copy: request() works on config.headers itself.
HeadersObjectAliased(ch) ==
    [alias |-> HasHeaders(ch), map |-> IF HasHeaders(ch) THEN ch.map ELSE BaseHeaders]

\* Lines 106-108: the map request() works on is a copy of config.headers or a
\* new empty map, never config.headers itself (alias = FALSE).
HeadersObject(ch) ==
    [alias |-> FALSE, map |-> IF HasHeaders(ch) THEN ch.map ELSE BaseHeaders]

\* Line 125, headers.update(options.headerOverrides).
ApplyOverrides(h, ov) ==
    LET Pick(k) == IF k \in ov.keys THEN ov.map[k] ELSE h[k] IN
    [Authorization |-> Pick("Authorization"), Accept |-> Pick("Accept"),
     Correlation |-> Pick("Correlation"), Custom |-> Pick("Custom")]

\* Lines 110-125 applied to the map h: correlation id, versioned Accept,
\* caller's overrides.
BuildHeaders(h, cfg, opts) ==
    LET h1 == IF cfg.loggingId # "" THEN [h EXCEPT !.Correlation = cfg.loggingId] ELSE h
        vs == <<cfg.version>>
        h2 == IF cfg.version = "" THEN h1
              ELSE IF h1.Accept = <<>> \/ h1.Accept = <<"application/json">>
              THEN [h1 EXCEPT !.Accept = vs]
              ELSE [h1 EXCEPT !.Accept = vs \o h1.Accept]
    IN IF opts.headerOverrides.keys # {} THEN ApplyOverrides(h2, opts.headerOverrides) ELSE h2

\* The calls the start of request() makes, in order (lines 127-137).
StartEvents(sent) == IF sent THEN <<"authenticate", "http">> ELSE <<"authenticate">>

\* The start of request(): header map, authenticate, dry run, URL, and the
\* first HTTP call issued with the authenticated headers.  Writes to a map
\* that is config.headers itself would show in config.
StartRequest(p, opts, path) ==
    LET obj == HeadersObject(config.headers)
        built == BuildHeaders(obj.map, config, opts)
        h == authenticate(authenticator, built)
        sent == ~opts.dryRun /\ ~urlFails
    IN
    /\ config' = IF obj.alias THEN [config EXCEPT !.headers.map = built] ELSE config
    /\ options' = [options EXCEPT ![p] = opts]
    /\ reqPath' = [reqPath EXCEPT ![p] = path]
    /\ headers' = [headers EXCEPT ![p] = h]
    /\ data' = [data EXCEPT ![p] = NoBody]
    /\ release' = [release EXCEPT ![p] = FALSE]
    /\ refreshSent' = [refreshSent EXCEPT ![p] = <<>>]
    /\ issued' = [issued EXCEPT ![p] = NoAuth]
    /\ refreshResp' = [refreshResp EXCEPT ![p] = -1]
    /\ events' = [events EXCEPT ![p] = StartEvents(sent)]
    /\ IF opts.dryRun
       THEN /\ result' = [result EXCEPT ![p] =
                   IF Truthy(opts.dryRunReturnValue)
                   THEN ReturnedCanned(opts.dryRunReturnValue)
                   ELSE Raised("DryRunError", NoBody)]
            /\ httpCalls' = [httpCalls EXCEPT ![p] = <<>>]
            /\ pc' = [pc EXCEPT ![p] = "done"]
       ELSE IF urlFails
       THEN /\ result' = [result EXCEPT ![p] = Raised("ConfigurationError", NoBody)]
            /\ httpCalls' = [httpCalls EXCEPT ![p] = <<>>]
            /\ pc' = [pc EXCEPT ![p] = "done"]
       ELSE /\ result' = [result EXCEPT ![p] = Pending]
            /\ httpCalls' = [httpCalls EXCEPT ![p] = <<h.Authorization>>]
            /\ pc' = [pc EXCEPT ![p] = "http1"]

\* A caller invokes request() directly.
Request(p) ==
    /\ pc[p] = "idle"
    /\ \E opts \in Options : StartRequest(p, opts, 0)
    /\ UNCHANGED <<authVars, headerOps, pagedVars, iterVars>>

\* The calls made from the 401 on, up to the call of refresh: a caller that
\* holds no mutex has just had acquireRefreshMutex raise NotImplementedError.
RefreshEvents(held) == IF held THEN <<"refresh">> ELSE <<"acquire", "refresh">>

\* BeginRefresh without the suppression of NotImplementedError: the
\* unsupported refresh leaves request() as it was raised.
BeginRefreshNoSuppress(p, held) ==
    /\ mutexHolder' = IF held THEN p ELSE mutexHolder
    /\ result' = [result EXCEPT ![p] = Raised("NotImplementedError", NoBody)]
    /\ pc' = [pc EXCEPT ![p] = "done"]
    /\ refreshSent' = refreshSent
    /\ events' = [events EXCEPT ![p] = @ \o RefreshEvents(held)]

\* BeginRefresh with the refresh coroutine not awaited: the retry is issued
\* while no refresh has run.
BeginRefreshNotAwaited(p, held) ==
    /\ mutexHolder' = IF held THEN p ELSE mutexHolder
    /\ result' = result
    /\ pc' = [pc EXCEPT ![p] = "http2"]
    /\ refreshSent' = refreshSent
    /\ events' = [events EXCEPT ![p] = @ \o RefreshEvents(held) \o <<"http">>]

\* BeginRefresh with the refresh token remembered from construction instead
\* of loaded from the token store.
BeginRefreshCached(p, held) ==
    /\ mutexHolder' = IF held THEN p ELSE mutexHolder
    /\ result' = result
    /\ pc' = [pc EXCEPT ![p] = "refreshing"]
    /\ refreshSent' = [refreshSent EXCEPT ![p] = Append(@, 100)]
    /\ events' = [events EXCEPT ![p] = @ \o RefreshEvents(held)]

\* request() from the call of authenticator.refresh on (lines 149-164), for
\* a caller whose mutex acquisition gave `held`; data' is the 401 body.
\* RefreshTokenAuthenticator.refresh up to its POST: it loads RefreshData from
\* the token store and submits the stored refresh token.
BeginRefresh(p, held) ==
    /\ events' = [events EXCEPT ![p] = @ \o RefreshEvents(held)]
    /\ IF ~SupportsRefresh(authenticator)
       THEN \* NotImplementedError is suppressed, release() runs, line 164 raises
            /\ mutexHolder' = IF held THEN 0 ELSE mutexHolder
            /\ result' = [result EXCEPT ![p] = Raised("ApiError", data'[p])]
            /\ pc' = [pc EXCEPT ![p] = "done"]
            /\ refreshSent' = refreshSent
       ELSE IF ~urlProvider
       THEN \* refresh raises "No URL provider specified": it leaves request()
            /\ mutexHolder' = IF held THEN p ELSE mutexHolder
            /\ result' = [result EXCEPT ![p] = Raised("ConfigurationError", NoBody)]
            /\ pc' = [pc EXCEPT ![p] = "done"]
            /\ refreshSent' = refreshSent
       ELSE /\ mutexHolder' = IF held THEN p ELSE mutexHolder
            /\ result' = result
            /\ pc' = [pc EXCEPT ![p] = "refreshing"]
            /\ refreshSent' = [refreshSent EXCEPT ![p] = Append(@, tokenStore.refreshToken)]

\* On401 without the mutex acquisition: the refresh starts at once.
On401NoLock(p) ==
    /\ pc' = [pc EXCEPT ![p] = "refreshing"]
    /\ refreshSent' = [refreshSent EXCEPT ![p] = Append(@, tokenStore.refreshToken)]
    /\ events' = [events EXCEPT ![p] = Append(@, "refresh")]
    /\ UNCHANGED <<mutexHolder, result>>

\* On401 with the NotImplementedError of acquireRefreshMutex not caught: it
\* leaves request().
On401Strict(p) ==
    IF authenticator.mutex
    THEN /\ pc' = [pc EXCEPT ![p] = "acquire"]
         /\ events' = [events EXCEPT ![p] = Append(@, "acquire")]
         /\ UNCHANGED <<mutexHolder, result, refreshSent>>
    ELSE /\ pc' = [pc EXCEPT ![p] = "done"]
         /\ result' = [result EXCEPT ![p] = Raised("NotImplementedError", NoBody)]
         /\ events' = [events EXCEPT ![p] = Append(@, "acquire")]
         /\ UNCHANGED <<mutexHolder, refreshSent>>

\* Lines 143-150: on a 401, acquireRefreshMutex is awaited first when the
\* authenticator provides it; NotImplementedError leaves release = None and
\* the refresh runs unguarded.
On401(p) ==
    IF authenticator.mutex
    THEN /\ pc' = [pc EXCEPT ![p] = "acquire"]
         /\ events' = [events EXCEPT ![p] = Append(@, "acquire")]
         /\ UNCHANGED <<mutexHolder, result, refreshSent>>
    ELSE BeginRefresh(p, FALSE)

\* Is2xx with the upper end of the range included.
Is2xxInclusive(status) == 200 <= status /\ status <= 300

\* Line 140, 200 <= resp.status < 300.
Is2xx(status) == 200 <= status /\ status < 300

\* Lines 138-141 and 164: what request() does with the first response.
FirstResult(p, status) ==
    IF status = 0 THEN Raised("TransportError", NoBody)
    ELSE IF Is2xx(status) THEN Returned(Body("first", status, reqPath[p]))
    ELSE Raised("ApiError", Body("first", status, reqPath[p]))

\* The first HTTP call ends.
HttpRespond(p) ==
    /\ pc[p] = "http1"
    /\ \E status \in Outcomes :
         IF status = 401
         THEN /\ data' = [data EXCEPT ![p] = Body("first", status, reqPath[p])]
              /\ On401(p)
         ELSE /\ data' = [data EXCEPT ![p] =
                     IF status = 0 THEN NoBody ELSE Body("first", status, reqPath[p])]
              /\ result' = [result EXCEPT ![p] = FirstResult(p, status)]
              /\ pc' = [pc EXCEPT ![p] = "done"]
              /\ UNCHANGED <<mutexHolder, refreshSent, events>>
    /\ UNCHANGED <<authenticator, urlProvider, tokenStore, minted>>
    /\ UNCHANGED <<options, reqPath, headers, release, httpCalls, issued, refreshResp>>
    /\ UNCHANGED <<cfgVars, pagedVars, iterVars>>

\* The await of acquireRefreshMutex() completes: the mutex is free and the
\* caller takes it, getting its release function.
acquireRefreshMutex(p) ==
    /\ pc[p] = "acquire"
    /\ mutexHolder = 0
    /\ release' = [release EXCEPT ![p] = TRUE]
    /\ data' = data
    /\ BeginRefresh(p, TRUE)
    /\ UNCHANGED <<authenticator, urlProvider, tokenStore, minted>>
    /\ UNCHANGED <<options, reqPath, headers, httpCalls, issued, refreshResp>>
    /\ UNCHANGED <<cfgVars, pagedVars, iterVars>>

\* PatchHeaders left out: the caller's header map keeps the old token.
PatchHeadersNone(h, token) == h

\* RefreshTokenAuthenticator.refresh line 159: the caller's header map is
\* patched in place with the new token.
PatchHeaders(h, token) == [h EXCEPT !.Authorization = token]

\* RefreshOk with the upper end of the range included.
RefreshOkInclusive(status) == status > 199 /\ status <= 300

\* authenticator.py line 153, resp.status > 199 and resp.status < 300.
RefreshOk(status) == status > 199 /\ status < 300

\* RefreshFailed turned into the ApiError of the original 401.
RefreshFailedAsApiError(p, status) ==
    IF status = 0 THEN Raised("TransportError", NoBody)
    ELSE Raised("ApiError", data[p])

\* authenticator.py lines 162-164: the exception refresh raises on a non-2xx
\* answer carries the status and the body; nothing in request() catches it.
RefreshFailed(p, status) ==
    IF status = 0 THEN Raised("TransportError", NoBody)
    ELSE Raised("AuthRefreshError", Body("refresh", status, 0))

\* The refresh POST ends (authenticator.py lines 151-164).  On 2xx the token,
\* the caller's headers and the token store are updated and request() goes on
\* to its retry (lines 152-158); otherwise the error leaves request().
RefreshRespond(p) ==
    /\ pc[p] = "refreshing"
    /\ \E status \in Outcomes :
         /\ refreshResp' = [refreshResp EXCEPT ![p] = status]
         /\ IF RefreshOk(status)
            THEN /\ minted < MaxRefresh
                 /\ minted' = minted + 1
                 /\ authenticator' = [authenticator EXCEPT !.token = minted + 1]
                 /\ headers' = [headers EXCEPT ![p] = PatchHeaders(@, minted + 1)]
                 /\ issued' = [issued EXCEPT ![p] = minted + 1]
                 /\ tokenStore' = [authToken |-> minted + 1,
                                   refreshToken |-> 100 + minted + 1]
                 /\ httpCalls' = [httpCalls EXCEPT ![p] =
                                     Append(@, headers'[p].Authorization)]
                 /\ events' = [events EXCEPT ![p] = @ \o <<"refreshed", "http">>]
                 /\ pc' = [pc EXCEPT ![p] = "http2"]
                 /\ result' = result
            ELSE /\ result' = [result EXCEPT ![p] = RefreshFailed(p, status)]
                 /\ events' = [events EXCEPT ![p] = Append(@, "refresh_raised")]
                 /\ pc' = [pc EXCEPT ![p] = "done"]
                 /\ UNCHANGED <<minted, authenticator, headers, tokenStore, httpCalls, issued>>
    /\ UNCHANGED <<urlProvider, mutexHolder>>
    /\ UNCHANGED <<options, reqPath, data, release, refreshSent>>
    /\ UNCHANGED <<cfgVars, pagedVars, iterVars>>

\* RetryResult with the retried response's status checked like the first.
RetryResultChecked(p, status) ==
    IF status = 0 THEN Raised("TransportError", NoBody)
    ELSE IF Is2xx(status) THEN Returned(Body("retry", status, reqPath[p]))
    ELSE Raised("ApiError", Body("retry", status, reqPath[p]))

\* Line 159: the retried call's parsed body is returned whatever its status;
\* a transport exception leaves request().
RetryResult(p, status) ==
    IF status = 0 THEN Raised("TransportError", NoBody)
    ELSE Returned(Body("retry", status, reqPath[p]))

\* The retried HTTP call ends.  release() on line 162 is not reached: the
\* function has returned, or the exception has left it.
RetryRespond(p) ==
    /\ pc[p] = "http2"
    /\ \E status \in Outcomes :
         result' = [result EXCEPT ![p] = RetryResult(p, status)]
    /\ pc' = [pc EXCEPT ![p] = "done"]
    /\ UNCHANGED authVars
    /\ UNCHANGED <<options, reqPath, headers, data, release, httpCalls, refreshSent, issued,
                   events, refreshResp>>
    /\ UNCHANGED <<cfgVars, pagedVars, iterVars>>

\* ---------------------------------------------------------------- Spec
InitAuth ==
    /\ authenticator \in [kind : AuthKinds, mutex : BOOLEAN, token : {0}]
    /\ urlProvider \in BOOLEAN
    /\ mutexHolder = 0
    /\ tokenStore = [authToken |-> 0, refreshToken |-> 100]
    /\ minted = 0

InitReq ==
    /\ pc = [p \in Callers |-> "idle"]
    /\ options = [p \in Callers |-> NoOptions]
    /\ reqPath = [p \in Callers |-> 0]
    /\ headers = [p \in Callers |-> BaseHeaders]
    /\ data = [p \in Callers |-> NoBody]
    /\ release = [p \in Callers |-> FALSE]
    /\ result = [p \in Callers |-> Pending]
    /\ httpCalls = [p \in Callers |-> <<>>]
    /\ refreshSent = [p \in Callers |-> <<>>]
    /\ issued = [p \in Callers |-> NoAuth]
    /\ events = [p \in Callers |-> <<>>]
    /\ refreshResp = [p \in Callers |-> -1]

\* EndpointClientConfig with the defaults of its optional fields: no headers,
\* no loggingId, no version.
NoHeaders == [none |-> TRUE, map |-> EmptyMap]

InitConfigOff ==
    /\ config = [headers |-> NoHeaders, loggingId |-> "", version |-> ""]
    /\ headerOps = 0

InitPagedOff ==
    /\ pages = <<>>
    /\ pgPc = "off"
    /\ pgResult = <<>>
    /\ pgOutcome = NoOutcome
    /\ pgGets = 0

InitIterOff ==
    /\ itPage = 0
    /\ itIndex = 0
    /\ itLast = [kind |-> "none", done |-> FALSE, value |-> 0]
    /\ itYielded = <<>>
    /\ itCalls = 0

Init == InitAuth /\ InitReq /\ InitConfigOff /\ InitPagedOff /\ InitIterOff

Next ==
    \E p \in Callers :
        \/ Request(p)
        \/ HttpRespond(p)
        \/ acquireRefreshMutex(p)
        \/ RefreshRespond(p)
        \/ RetryRespond(p)

Spec == Init /\ [][Next]_vars

\* -------------------------------------------------------------- headers
\* Header names and values setHeader and removeHeader are called with.
HeaderNames == {"Accept", "Custom"}
HeaderValues == {"application/json", "text/plain"}

\* Whether the map has an entry of that name.
HasEntry(m, name) == m[name] # EmptyMap[name]

\* EndpointClient.setHeader (lines 74-79): a false config.headers is replaced
\* by a new map, then the entry is set.
setHeader ==
    /\ headerOps < MaxHeaderOps
    /\ headerOps' = headerOps + 1
    /\ \E name \in HeaderNames, value \in HeaderValues :
         LET m == IF HasHeaders(config.headers) THEN config.headers.map ELSE EmptyMap IN
         config' = [config EXCEPT !.headers =
                       [none |-> FALSE,
                        map |-> IF name = "Accept"
                                THEN [m EXCEPT !.Accept = <<value>>]
                                ELSE [m EXCEPT !.Custom = value]]]
    /\ UNCHANGED <<authVars, reqVars, pagedVars, iterVars>>

\* EndpointClient.removeHeader (lines 81-84): `del` of an entry of a true
\* config.headers; the del of a missing name raises KeyError.
removeHeader ==
    /\ headerOps < MaxHeaderOps
    /\ headerOps' = headerOps + 1
    /\ \E name \in HeaderNames :
         config' =
            IF HasHeaders(config.headers) /\ HasEntry(config.headers.map, name)
            THEN [config EXCEPT !.headers.map =
                     IF name = "Accept" THEN [@ EXCEPT !.Accept = <<>>]
                     ELSE [@ EXCEPT !.Custom = ""]]
            ELSE config
    /\ UNCHANGED <<authVars, reqVars, pagedVars, iterVars>>

\* options with header overrides, and a dry run.
HeaderOptions ==
    {NoOptions,
     [NoOptions EXCEPT !.headerOverrides =
        [keys |-> {"Accept"}, map |-> [EmptyMap EXCEPT !.Accept = <<"text/html">>]]],
     [NoOptions EXCEPT !.headerOverrides =
        [keys |-> {"Correlation", "Custom"},
         map |-> [EmptyMap EXCEPT !.Correlation = "o", !.Custom = "o"]]],
     [NoOptions EXCEPT !.dryRun = TRUE, !.dryRunReturnValue = "Obj"]}

\* A caller invokes request() with such options, for the first time or after
\* its previous request() has ended.
RequestWithHeaders(p) ==
    /\ pc[p] \in {"idle", "done"}
    /\ \E opts \in HeaderOptions : StartRequest(p, opts, 0)
    /\ UNCHANGED <<authVars, headerOps, pagedVars, iterVars>>

\* Clients configured with and without headers, loggingId and version.
HeaderInit ==
    /\ authenticator \in [kind : AuthKinds, mutex : {FALSE}, token : {0}]
    /\ urlProvider = TRUE
    /\ mutexHolder = 0
    /\ tokenStore = [authToken |-> 0, refreshToken |-> 100]
    /\ minted = 0
    /\ InitReq
    /\ config \in
         [headers : {NoHeaders,
                     [none |-> FALSE, map |-> EmptyMap],
                     [none |-> FALSE, map |-> [EmptyMap EXCEPT !.Accept = <<"application/json">>]],
                     [none |-> FALSE,
                      map |-> [EmptyMap EXCEPT !.Accept = <<"text/plain">>, !.Custom = "c"]]},
          loggingId : {"", "log"},
          version : {"", "v1"}]
    /\ headerOps = 0
    /\ InitPagedOff
    /\ InitIterOff

\* One caller makes a sequence of request() calls, between and during which
\* setHeader and removeHeader are called.
HeaderNext ==
    \/ setHeader
    \/ removeHeader
    \/ RequestWithHeaders(1)
    \/ HttpRespond(1)
    \/ RefreshRespond(1)
    \/ RetryRespond(1)

HeaderSpec == HeaderInit /\ [][HeaderNext]_vars

\* ---------------------------------------------------------- pagination
\* A page is [items, links].  links models the "_links" entry of the body:
\* st = "absent" (no such key), "null" (None) or "dict"; in a dict, next and
\* previous are -1 (no such key), 0 (None) or k > 0 ({"href": <page k>}).
LastForms == {"absent", "null", "empty", "nextAbsent", "nextNull"}

LastLinks(form, i) ==
    LET prev == IF i = 1 THEN 0 ELSE i - 1 IN
    CASE form = "absent" -> [st |-> "absent", next |-> -1, previous |-> -1]
      [] form = "null" -> [st |-> "null", next |-> -1, previous |-> -1]
      [] form = "empty" -> [st |-> "dict", next |-> -1, previous |-> -1]
      [] form = "nextAbsent" -> [st |-> "dict", next |-> -1, previous |-> prev]
      [] form = "nextNull" -> [st |-> "dict", next |-> 0, previous |-> prev]

\* Page i of a chain of k pages: its items are numbered 10 * i + j.
ChainPage(i, k, size, form) ==
    [items |-> [j \in 1..size |-> 10 * i + j],
     links |-> IF i < k
               THEN [st |-> "dict", next |-> i + 1,
                     previous |-> IF i = 1 THEN 0 ELSE i - 1]
               ELSE LastLinks(form, i)]

\* The finite chains: every page but the last links to its successor.
Chains ==
    UNION {
        {[i \in 1..k |-> ChainPage(i, k, sizes[i], form)] :
            sizes \in [1..k -> 0..MaxPageItems], form \in LastForms}
        : k \in 1..MaxPages}

RECURSIVE Concat(_, _)
\* The items of pages 1..n of a chain, in order.
Concat(ps, n) == IF n = 0 THEN <<>> ELSE Concat(ps, n - 1) \o ps[n].items

AllItems(ps) == Concat(ps, Len(ps))

\* LinkStep with the loop left out: the first page is taken for the last.
LinkStepOnce(links) == IF links.st = "absent" THEN "KeyError" ELSE "stop"

\* Line 218, `itemsList["_links"] and itemsList["_links"]["next"]`, as Python
\* evaluates it: subscripting a missing key raises KeyError, None and the
\* empty dict are false.
LinkStep(links) ==
    IF links.st = "absent" THEN "KeyError"
    ELSE IF links.st = "null" THEN "stop"
    ELSE IF links.next = -1 /\ links.previous = -1 THEN "stop"
    ELSE IF links.next = -1 THEN "KeyError"
    ELSE IF links.next = 0 THEN "stop"
    ELSE "follow"

\* getPagedItems is called: line 216 awaits self.get(path, params, options).
PgStart ==
    /\ pgPc = "idle"
    /\ pgPc' = "fetch"
    /\ pgGets' = 1
    /\ StartRequest(1, NoOptions, 1)
    /\ UNCHANGED <<authVars, headerOps, pages, pgResult, pgOutcome, iterVars>>

\* FetchFailed with the error swallowed: the items gathered so far are returned.
FetchFailedPartial(r) ==
    [kind |-> "returned", err |-> "none", body |-> NoBody, items |-> pgResult]

\* getPagedItems when self.get raised: the exception leaves getPagedItems,
\* `result` is dropped with the frame.
FetchFailed(r) == [kind |-> "raised", err |-> r.err, body |-> r.body, items |-> <<>>]

\* An awaited self.get has ended (lines 216-223).
PgFetched ==
    /\ pgPc = "fetch"
    /\ pc[1] = "done"
    /\ LET r == result[1] IN
       IF r.kind = "raised"
       THEN /\ pgOutcome' = FetchFailed(r)
            /\ pgPc' = "done"
            /\ UNCHANGED <<pgResult, pgGets, reqVars, config>>
       ELSE IF r.body.page = 0
       THEN \* the returned JSON value has no "items" entry
            /\ pgOutcome' = [NoOutcome EXCEPT !.kind = "raised", !.err = "KeyError"]
            /\ pgPc' = "done"
            /\ UNCHANGED <<pgResult, pgGets, reqVars, config>>
       ELSE LET page == pages[r.body.page]
                step == LinkStep(page.links) IN
            /\ pgResult' = pgResult \o page.items
            /\ IF step = "follow"
               THEN /\ StartRequest(1, options[1], page.links.next)
                    /\ pgGets' = pgGets + 1
                    /\ UNCHANGED <<pgPc, pgOutcome>>
               ELSE /\ pgOutcome' =
                         IF step = "stop"
                         THEN [NoOutcome EXCEPT !.kind = "returned", !.items = pgResult']
                         ELSE [NoOutcome EXCEPT !.kind = "raised", !.err = "KeyError"]
                    /\ pgPc' = "done"
                    /\ UNCHANGED <<pgGets, reqVars, config>>
    /\ UNCHANGED <<authVars, headerOps, pages, iterVars>>

PagedInit ==
    /\ InitAuth
    /\ InitReq
    /\ InitConfigOff
    /\ pages \in Chains
    /\ pgPc = "idle"
    /\ pgResult = <<>>
    /\ pgOutcome = NoOutcome
    /\ pgGets = 0
    /\ InitIterOff

PagedNext ==
    \/ PgStart
    \/ PgFetched
    \/ HttpRespond(1)
    \/ acquireRefreshMutex(1)
    \/ RefreshRespond(1)
    \/ RetryRespond(1)

PagedSpec == PagedInit /\ [][PagedNext]_vars

\* getPagedItems as a task of the event loop: a ready task is resumed, and
\* the awaits of request() end as under FairSpec.
PagedFairSpec ==
    /\ PagedSpec
    /\ WF_vars(PgFetched)
    /\ WF_vars(HttpRespond(1))
    /\ WF_vars(acquireRefreshMutex(1))
    /\ WF_vars(RefreshRespond(1))
    /\ WF_vars(RetryRespond(1))

\* ------------------------------------------------------------ iterator
\* dict.get(key) on a "_links" dict whose keys are "next" and "previous":
\* -1 when the key is missing.
DictGet(links, key) ==
    IF key = "next" THEN links.next
    ELSE IF key = "previous" THEN links.previous
    ELSE -1

\* Lines 26-28: the href the iterator would follow, 0 when the condition is
\* false, -2 when reading page._links raises.
NextHref(links) ==
    IF links.st = "absent" THEN -2
    ELSE IF links.st = "null" THEN 0
    ELSE IF links.next = -1 /\ links.previous = -1 THEN 0
    ELSE IF DictGet(links, "_next") > 0 THEN DictGet(links, "_next")
    ELSE 0

NoCall == [kind |-> "none", done |-> FALSE, value |-> 0]
Yield(done, value) == [kind |-> "returned", done |-> done, value |-> value]
IterRaised(e) == [kind |-> e, done |-> FALSE, value |-> 0]

\* One call of PaginatedListIterator.next (lines 20-34).  Python's items[i]
\* is items[i + 1] here, and raises IndexError when i >= len(items).
next ==
    /\ itCalls < MaxNextCalls
    /\ itCalls' = itCalls + 1
    /\ LET items == pages[itPage].items
           n == Len(items)
           i == itIndex + 1
       IN
       IF itIndex < n
       THEN IF i >= n
            THEN \* line 24 raises after line 23 has advanced the index
                 /\ itIndex' = i
                 /\ itLast' = IterRaised("IndexError")
                 /\ UNCHANGED <<itPage, itYielded>>
            ELSE IF i = n
            THEN LET href == NextHref(pages[itPage].links) IN
                 IF href = -2
                 THEN /\ itIndex' = i
                      /\ itLast' = IterRaised("AttributeError")
                      /\ UNCHANGED <<itPage, itYielded>>
                 ELSE IF href > 0
                 THEN \* lines 29-30: the page is replaced by client.get's
                      \* result, or the exception of the fetch leaves next()
                      /\ itIndex' = 0
                      /\ \E ok \in BOOLEAN :
                            IF ok
                            THEN /\ itPage' = href
                                 /\ itLast' = Yield(FALSE, items[i + 1])
                                 /\ itYielded' = Append(itYielded, items[i + 1])
                            ELSE /\ itLast' = IterRaised("ApiError")
                                 /\ UNCHANGED <<itPage, itYielded>>
                 ELSE /\ itIndex' = i
                      /\ itLast' = Yield(TRUE, items[i + 1])
                      /\ UNCHANGED <<itPage, itYielded>>
            ELSE /\ itIndex' = i
                 /\ itLast' = Yield(FALSE, items[i + 1])
                 /\ itYielded' = Append(itYielded, items[i + 1])
                 /\ itPage' = itPage
       ELSE /\ itLast' = Yield(TRUE, 0)
            /\ UNCHANGED <<itIndex, itPage, itYielded>>
    /\ UNCHANGED <<authVars, reqVars, cfgVars, pages, pgPc, pgResult, pgOutcome, pgGets>>

\* PaginatedListIterator(client, page) on the first page of a chain.
IterInit ==
    /\ authenticator = [kind |-> "bearer", mutex |-> FALSE, token |-> 0]
    /\ urlProvider = TRUE
    /\ mutexHolder = 0
    /\ tokenStore = [authToken |-> 0, refreshToken |-> 100]
    /\ minted = 0
    /\ InitReq
    /\ InitConfigOff
    /\ pages \in Chains
    /\ pgPc = "off"
    /\ pgResult = <<>>
    /\ pgOutcome = NoOutcome
    /\ pgGets = 0
    /\ itPage = 1
    /\ itIndex = 0
    /\ itLast = NoCall
    /\ itYielded = <<>>
    /\ itCalls = 0

IterNext == next

IterSpec == IterInit /\ [][IterNext]_vars

\* Every await of the pipeline completes: the transports answer (or fail) and
\* a free mutex is handed to a waiting caller.
FairSpec ==
    /\ Spec
    /\ \A p \in Callers :
          /\ WF_vars(HttpRespond(p))
          /\ WF_vars(acquireRefreshMutex(p))
          /\ WF_vars(RefreshRespond(p))
          /\ WF_vars(RetryRespond(p))

\* ------------------------------------------------------------- claims
\* C1: a request() whose first response is 401 and whose refresh succeeded
\* makes exactly one more HTTP call, never a third; that call carries the
\* Authorization the refresh was issued, not the one first sent; and once the
\* retry is answered request() returns its body whatever the status (only a
\* transport exception of the retry, which has no body, is raised instead).
C1_RetryOnce ==
    \A p \in Callers :
        (data[p].status = 401 /\ issued[p] # NoAuth) =>
            /\ Len(httpCalls[p]) = 2
            /\ httpCalls[p][2] = issued[p]
            /\ httpCalls[p][2] # httpCalls[p][1]
            /\ pc[p] \in {"http2", "done"}
            /\ pc[p] = "done" =>
                 \/ /\ result[p].kind = "returned"
                    /\ result[p].body.src = "retry"
                    /\ result[p].body.status \in Statuses
                 \/ result[p] = Raised("TransportError", NoBody)

\* C1 witness: a request ended returning the body of a retry answered 401.
C1_Witness ==
    \E p \in Callers :
        /\ pc[p] = "done"
        /\ data[p].status = 401
        /\ issued[p] # NoAuth
        /\ result[p] = Returned(Body("retry", 401, 0))

\* C2: a finished request() that acquired the refresh mutex has released it.
C2_MutexReleased ==
    \A p \in Callers : (pc[p] = "done" /\ release[p]) => mutexHolder # p

\* C3: with a mutex-capable authenticator a refresh call is in flight only
\* for the caller that holds the refresh mutex, hence for at most one caller.
C3_SingleFlight ==
    authenticator.mutex =>
        /\ \A p \in Callers : pc[p] = "refreshing" => mutexHolder = p
        /\ Cardinality({p \in Callers : pc[p] = "refreshing"}) <= 1

\* C3 witness: one caller refreshes while another, also answered 401, waits.
C3_Witness ==
    \E p, q \in Callers :
        /\ p # q
        /\ pc[p] = "refreshing"
        /\ pc[q] = "acquire"
        /\ data[q].status = 401

\* C4: when a caller's refresh and retry have succeeded while another caller
\* waits for the mutex, the waiting caller eventually acquires it; and a
\* retried call never carries the stale token.
C4_SecondCallerProceeds ==
    /\ \A p, q \in Callers :
          (/\ p # q
           /\ authenticator.mutex
           /\ pc[q] = "acquire"
           /\ pc[p] = "done"
           /\ result[p].kind = "returned"
           /\ result[p].body.src = "retry") ~> release[q]
    /\ [](\A q \in Callers : Len(httpCalls[q]) = 2 => httpCalls[q][2] \in 1..minted)

\* C5: a request() answered 401 under an authenticator without refresh ends
\* raising ApiError with the body of that 401, after exactly one HTTP call,
\* and the authenticator, the token store and the mutex are as they started.
C5_UnsupportedRefresh ==
    \A p \in Callers :
        (authenticator.kind # "refresh" /\ data[p].status = 401
            /\ pc[p] # "acquire") =>
            /\ pc[p] = "done"
            /\ result[p] = Raised("ApiError", Body("first", 401, reqPath[p]))
            /\ httpCalls[p] = <<headers[p].Authorization>>
            /\ refreshSent[p] = <<>>
            /\ authenticator.token = 0
            /\ tokenStore = [authToken |-> 0, refreshToken |-> 100]
            /\ minted = 0
            /\ mutexHolder = 0

\* C5 witness: such a request has ended, under a static bearer token.
C5_Witness ==
    \E p \in Callers :
        /\ authenticator.kind = "bearer"
        /\ pc[p] = "done"
        /\ data[p].status = 401
        /\ result[p].err = "ApiError"

\* C6: a dry-run request() makes no HTTP call and no refresh, returns the
\* canned value whenever one was provided (any value but None), and raises
\* DryRunError only when none was.
C6_DryRun ==
    \A p \in Callers :
        (pc[p] = "done" /\ options[p].dryRun) =>
            /\ httpCalls[p] = <<>>
            /\ refreshSent[p] = <<>>
            /\ result[p] =
                 IF options[p].dryRunReturnValue # "None"
                 THEN ReturnedCanned(options[p].dryRunReturnValue)
                 ELSE Raised("DryRunError", NoBody)

\* The errors with which a page fetch of getPagedItems can end: those
\* request() raises, and the KeyError on a returned body that is no page.
FetchEnded(o) == o.kind = "raised" /\ (o.err # "KeyError" \/ result[1].body.page = 0)

\* C7: when no page fetch failed, getPagedItems on a chain whose last page
\* has no next link returns the items of all pages, in page and item order.
C7_AllItemsInOrder ==
    (pgPc = "done" /\ ~FetchEnded(pgOutcome)) =>
        /\ pgOutcome.kind = "returned"
        /\ pgOutcome.items = AllItems(pages)

\* C8: when a page fetch raised, getPagedItems has ended raising that same
\* error and hands no items to its caller; it returns only after a fetch
\* that returned.
C8_NoPartialResult ==
    /\ (result[1].kind = "raised" /\ pgPc \in {"fetch", "done"}) =>
          \/ pgPc = "fetch" /\ pgOutcome = NoOutcome
          \/ /\ pgPc = "done"
             /\ pgOutcome.kind = "raised"
             /\ pgOutcome.err = result[1].err
             /\ pgOutcome.body = result[1].body
             /\ pgOutcome.items = <<>>
    /\ pgOutcome.kind = "returned" => result[1].kind = "returned"

\* C8 witness: the fetch of the second page raised ApiError after the first
\* page's items had been gathered, and getPagedItems ended raising it.
C8_Witness ==
    /\ pgPc = "done"
    /\ pgGets = 2
    /\ pgResult # <<>>
    /\ result[1].err = "ApiError"
    /\ pgOutcome.err = "ApiError"

IsPrefix(a, b) == Len(a) <= Len(b) /\ \A k \in 1..Len(a) : a[k] = b[k]

\* C9: next() never raises, the values it yields are the items of the chain
\* from the first item on, in order, and when it reports done it has yielded
\* them all.
C9_IteratorYieldsAll ==
    /\ itLast.kind \in {"none", "returned"}
    /\ IsPrefix(itYielded, AllItems(pages))
    /\ (itLast.kind = "returned" /\ itLast.done) => itYielded = AllItems(pages)

\* The last item of a single page has been returned (or the page is empty).
LastItemReturned ==
    /\ Len(pages) = 1
    /\ NextHref(pages[1].links) = 0
    /\ \/ pages[1].items = <<>>
       \/ /\ itYielded # <<>>
          /\ itYielded[Len(itYielded)] = pages[1].items[Len(pages[1].items)]

\* C10: on a single page without next link, every call of next() made after
\* the last item was returned yields {done: true, value: None}.
C10_DoneAfterLast ==
    [][LastItemReturned => itLast' = Yield(TRUE, 0)]_iterVars

\* C11: a step that is no setHeader or removeHeader call leaves config.headers
\* (and the rest of the configuration) as it was, whatever request() does.
C11_ConfigHeadersKept ==
    [][headerOps' = headerOps => config' = config]_vars

\* C11 witness: under a configuration with headers, loggingId and version a
\* request with overrides has refreshed and retried; its own header map
\* differs from config.headers.
C11_Witness ==
    \E p \in Callers :
        /\ pc[p] = "done"
        /\ issued[p] # NoAuth
        /\ HasHeaders(config.headers)
        /\ config.loggingId # ""
        /\ config.version # ""
        /\ options[p].headerOverrides.keys # {}
        /\ headers[p].Accept # config.headers.map.Accept
        /\ headers[p].Correlation # config.headers.map.Correlation

\* The HTTP calls among the calls a request() made.
HttpEvents(e) == {i \in 1..Len(e) : e[i] = "http"}

\* C12: in every request() each HTTP call comes after authenticate, and each
\* HTTP call after the first (the retry) comes after a refresh that was
\* called and has returned; while a refresh is in flight only the first call
\* has been made.  The logged calls are the calls issued.
C12_Ordering ==
    \A p \in Callers :
        LET e == events[p] IN
        /\ \A i \in HttpEvents(e) :
              /\ \E j \in 1..(i - 1) : e[j] = "authenticate"
              /\ (\E k \in HttpEvents(e) : k < i) =>
                    \E j \in 1..(i - 1) :
                        /\ e[j] = "refreshed"
                        /\ \E k \in 1..(j - 1) : e[k] = "refresh"
        /\ Cardinality(HttpEvents(e)) = Len(httpCalls[p])
        /\ pc[p] = "refreshing" => Cardinality(HttpEvents(e)) = 1

\* C12 witness: a request that authenticated, called, acquired the mutex,
\* refreshed and retried.
C12_Witness ==
    \E p \in Callers :
        events[p] = <<"authenticate", "http", "acquire", "refresh", "refreshed", "http">>

\* The refresh endpoint answered caller p's refresh with a non-2xx status.
RefreshRejected(p) ==
    /\ refreshResp[p] \in Statuses
    /\ ~(200 <= refreshResp[p] /\ refreshResp[p] < 300)

\* C13: a request() answered 401 whose refresh was answered non-2xx ends
\* raising ApiError with the body of the original 401, without a retry.
C13_RefreshFailureAsApiError ==
    \A p \in Callers :
        (pc[p] = "done" /\ data[p].status = 401 /\ RefreshRejected(p)) =>
            /\ result[p] = Raised("ApiError", data[p])
            /\ Len(httpCalls[p]) = 1

\* C13 amended: such a request() ends raising the error refresh raised, which
\* carries the refresh endpoint's status and body, without a retry.
C13_RefreshFailureSurfaces ==
    \A p \in Callers :
        (pc[p] = "done" /\ data[p].status = 401 /\ RefreshRejected(p)) =>
            /\ result[p] = Raised("AuthRefreshError", Body("refresh", refreshResp[p], 0))
            /\ Len(httpCalls[p]) = 1
            /\ issued[p] = NoAuth

\* C13 witness: a request ended after a 401 and a refresh answered 500.
C13_Witness ==
    \E p \in Callers :
        /\ pc[p] = "done"
        /\ data[p].status = 401
        /\ refreshResp[p] = 500

\* C14: a request() whose first response is neither 2xx nor 401 ends raising
\* ApiError with that response's body after one HTTP call, having called
\* neither acquireRefreshMutex nor refresh.
C14_OtherStatus ==
    \A p \in Callers :
        (/\ pc[p] = "done"
         /\ data[p].status \in Statuses \ {401}
         /\ ~(200 <= data[p].status /\ data[p].status < 300)) =>
            /\ result[p] = Raised("ApiError", Body("first", data[p].status, reqPath[p]))
            /\ Len(httpCalls[p]) = 1
            /\ events[p] = <<"authenticate", "http">>
            /\ ~release[p]
            /\ refreshSent[p] = <<>>
            /\ refreshResp[p] = -1
            /\ issued[p] = NoAuth

\* C14 witness: requests ended on a 300 and on a 500.
C14_Witness ==
    \E p, q \in Callers :
        /\ pc[p] = "done" /\ data[p].status = 300
        /\ pc[q] = "done" /\ data[q].status = 500

\* C15: under a refreshing authenticator without mutex, a request() answered
\* 401 goes on to the refresh holding no lock, never raises the
\* NotImplementedError of acquireRefreshMutex, and after a successful refresh
\* makes the one retry and returns its body.
C15_UnguardedRefresh ==
    \A p \in Callers :
        (authenticator.kind = "refresh" /\ ~authenticator.mutex /\ data[p].status = 401) =>
            /\ pc[p] \in {"refreshing", "http2", "done"}
            /\ ~release[p]
            /\ mutexHolder = 0
            /\ result[p].err # "NotImplementedError"
            /\ Len(refreshSent[p]) = 1
            /\ issued[p] # NoAuth =>
                  /\ httpCalls[p] = <<httpCalls[p][1], issued[p]>>
                  /\ (pc[p] = "done" /\ result[p].kind = "returned") =>
                        result[p].body.src = "retry"

\* C15 witness: such a request has returned the body of its retry.
C15_Witness ==
    \E p \in Callers :
        /\ authenticator.kind = "refresh"
        /\ ~authenticator.mutex
        /\ pc[p] = "done"
        /\ result[p].kind = "returned"
        /\ result[p].body.src = "retry"

\* C16: every refresh attempt submits the refresh token that is in the token
\* store when the attempt begins; under a mutex-capable authenticator no
\* refresh token is submitted twice.
C16_FreshRefreshToken ==
    /\ [][\A p \in Callers :
            Len(refreshSent'[p]) > Len(refreshSent[p]) =>
                refreshSent'[p][Len(refreshSent'[p])] = tokenStore.refreshToken]_vars
    /\ [](authenticator.mutex =>
            \A p, q \in Callers :
                \A i \in 1..Len(refreshSent[p]), j \in 1..Len(refreshSent[q]) :
                    (p # q \/ i # j) => refreshSent[p][i] # refreshSent[q][j])

\* C16 witness: after a successful refresh persisted refresh token 101, an
\* attempt submitted 101.
C16_Witness ==
    \E p \in Callers :
        /\ refreshSent[p] = <<101>>
        /\ tokenStore.refreshToken >= 101

\* C17: when a refresh returns successfully, the authenticator's token, the
\* Authorization of the caller's header map and the persisted authToken are
\* the access token just issued, and the persisted refreshToken is the one
\* issued with it.
C17_CopiesAgree ==
    [][\A p \in Callers :
         (issued'[p] # issued[p] /\ issued'[p] # NoAuth) =>
            /\ refreshResp'[p] = 200
            /\ authenticator'.token = issued'[p]
            /\ headers'[p].Authorization = issued'[p]
            /\ tokenStore'.authToken = issued'[p]
            /\ tokenStore'.refreshToken = 100 + issued'[p]]_vars

\* C17 witness: a second refresh has just returned with token 2.
C17_Witness ==
    \E p \in Callers :
        /\ pc[p] = "http2"
        /\ issued[p] = 2
        /\ authenticator.token = 2
        /\ headers[p].Authorization = 2
        /\ tokenStore = [authToken |-> 2, refreshToken |-> 102]

\* C18: a refresh answered with a non-2xx status ends raising an error that
\* carries that status and the body, and leaves the authenticator's token,
\* the caller's header map and the token store as they were.
C18_RefreshFailureLeavesState ==
    [][\A p \in Callers :
         (/\ pc[p] = "refreshing"
          /\ pc'[p] # "refreshing"
          /\ refreshResp'[p] \in Statuses
          /\ ~(200 <= refreshResp'[p] /\ refreshResp'[p] < 300)) =>
            /\ result'[p] = Raised("AuthRefreshError", Body("refresh", refreshResp'[p], 0))
            /\ authenticator' = authenticator
            /\ headers'[p] = headers[p]
            /\ tokenStore' = tokenStore
            /\ minted' = minted]_vars

\* C18 witness: a refresh was answered 300 and the request has ended.
C18_Witness ==
    \E p \in Callers :
        /\ pc[p] = "done"
        /\ refreshResp[p] = 300
        /\ result[p].err = "AuthRefreshError"

\* A page fetch waits for the refresh mutex an earlier fetch left locked.
FetchBlocked == pc[1] = "acquire" /\ mutexHolder # 0

\* C19: getPagedItems on a chain of k pages calls get once per page, page i
\* at the i-th call and never more than k times; when no fetch failed it ends
\* after exactly k calls; and once started it ends unless a fetch never ends.
C19_ExactlyKGets ==
    /\ [](/\ pgGets <= Len(pages)
          /\ pgPc = "fetch" => (reqPath[1] = pgGets /\ pc[1] # "idle")
          /\ (pgPc = "done" /\ ~FetchEnded(pgOutcome)) => pgGets = Len(pages))
    /\ (pgPc = "fetch") ~> (pgPc = "done" \/ FetchBlocked)

\* C19 witness: a chain of three pages was read with three calls of get, the
\* last of them answered 401, refreshed and retried.
C19_Witness ==
    /\ pgPc = "done"
    /\ Len(pages) = 3
    /\ pgGets = 3
    /\ pgOutcome.kind = "returned"
    /\ Len(httpCalls[1]) = 2

====
